---------------------------- MODULE Spec2Model ----------------------------
(* A model of src/app.py: the Quora lead-generation pipeline.              *)
(*                                                                         *)
(* main() is a straight-line handler: resolve the Gemini model, compress   *)
(* the user's query with the language model, search for URLs, extract the  *)
(* interactions of every URL, flatten them, offer the downloads and save   *)
(* the CSV.  The external services (model listing, completion, search,     *)
(* extraction, the file system) are the environment: every answer they can *)
(* give, an exception included, is a nondeterministic input of the action  *)
(* that makes the call.                                                    *)
(*                                                                         *)
(* Two specifications share the variables:                                 *)
(*   Spec         the whole handler main()                                 *)
(*   SpecFlatten  format_user_info_to_flattened_json over bounded inputs   *)
EXTENDS Integers, Sequences, FiniteSets, TLC

VARIABLES
    pc,                 \* position of the handler
    firecrawl_api_key,  \* sidebar input (app.py:154)
    gemini_api_key,     \* sidebar input (app.py:156)
    gemini_model_id,    \* sidebar selectbox (app.py:158)
    num_links,          \* sidebar number input (app.py:161)
    user_query,         \* text area (app.py:167)
    models,             \* what genai.list_models() answered
    available,          \* list_available_gemini_models' result
    resolved_model,     \* main's resolved_model (app.py:177)
    company_text,       \* main's company_text (app.py:189)
    query1,             \* the query search_for_urls sent (app.py:31)
    search_response,    \* what requests.post answered (app.py:39)
    urls,               \* main's urls (app.py:193)
    idx,                \* extract loop: number of URLs already handled
    responses,          \* what firecrawl_app.extract answered, per URL handled
    user_info_list,     \* extract_user_info_from_urls' accumulator / result
    flattened_data,     \* main's flattened_data (app.py:204)
    csv_download,       \* data of the "Download CSV" button
    json_download,      \* data of the "Download JSON" button
    disk_csv,           \* rows written to output_csv_path
    screen,             \* what the handler displayed, in order
    exc                 \* the exception that left main uncaught, or "none"

vars == << pc, firecrawl_api_key, gemini_api_key, gemini_model_id, num_links,
           user_query, models, available, resolved_model, company_text,
           query1, search_response, urls, idx, responses, user_info_list,
           flattened_data, csv_download, json_download, disk_csv, screen, exc >>

-----------------------------------------------------------------------------
(* Bounds of the model.                                                    *)

\* largest "Number of links to search" explored (the widget allows 1..10)
MaxLinks == 2

\* longest model listing explored
MaxModels == 2

\* most pages, and most interactions per page, explored in SpecFlatten
MaxPages == 2

MaxInter == 2

-----------------------------------------------------------------------------
(* Python helpers.                                                         *)

\* dict.get(k, default)
Get(d, k, default) == IF k \in DOMAIN d THEN d[k] ELSE default

Has(d, k) == k \in DOMAIN d

\* sep.join(parts)
RECURSIVE Join(_, _)
Join(sep, parts) ==
    IF parts = << >> THEN ""
    ELSE IF Len(parts) = 1 THEN parts[1]
    ELSE parts[1] \o sep \o Join(sep, Tail(parts))

\* `p in a` for strings
Contains(a, p) ==
    \E i \in 1 .. (Len(a) - Len(p) + 1) : SubSeq(a, i, i + Len(p) - 1) = p

\* name.split("/")[-1]: what follows the last "/"
LastSegment(name) ==
    LET slashes == { i \in 1 .. Len(name) : SubSeq(name, i, i) = "/" }
    IN  IF slashes = {} THEN name
        ELSE LET last == CHOOSE i \in slashes : \A j \in slashes : j <= i
             IN  SubSeq(name, last + 1, Len(name))

\* all sequences over S of length lo..hi
SeqsBetween(S, lo, hi) == UNION { [1 .. n -> S] : n \in lo .. hi }

RECURSIVE SumSeq(_)
SumSeq(s) == IF s = << >> THEN 0 ELSE Head(s) + SumSeq(Tail(s))

-----------------------------------------------------------------------------
(* Model selection: list_available_gemini_models, choose_gemini_model.     *)

AUTO == "Auto (recommended)"

DEFAULT_MODEL == "gemini-1.5-pro"

priority ==
    << "gemini-2.5-flash", "gemini-2.5-pro", "gemini-2.0-flash",
       "gemini-2.0-pro", "gemini-1.5-pro", "gemini-1.5-flash" >>

\* the options of the "Gemini Model" selectbox
ModelChoices == { AUTO, "gemini-1.5-pro", "gemini-1.5-flash" }

\* model objects genai.list_models() may yield; an attribute may be absent
ModelCatalogue ==
    { [name |-> "models/gemini-2.5-flash-001",
       supported_generation_methods |-> {"generateContent", "countTokens"}],
      [name |-> "models/gemini-1.5-pro",
       supported_generation_methods |-> {"generateContent"}],
      [name |-> "models/gemini-2.5-pro",
       supported_generation_methods |-> {"embedContent"}],
      [name |-> "models/gemini-2.0-flash-exp",
       supported_generation_methods |-> {"createContent"}],
      [name |-> "models/text-bison-001",
       supported_generation_methods |-> {"generateContent"}],
      [name |-> "",
       supported_generation_methods |-> {"generateContent"}],
      [name |-> "models/gemini-1.5-flash"] }

\* the answers of the listing call: it raises, or yields model objects
NoListing == [raised |-> FALSE, items |-> << >>]

Listings ==
    { [raised |-> TRUE, items |-> << >>] }
    \cup { [raised |-> FALSE, items |-> s] :
             s \in SeqsBetween(ModelCatalogue, 0, MaxModels) }

\* the loop body of list_available_gemini_models, over the listed objects
RECURSIVE ListedNames(_)
ListedNames(items) ==
    IF items = << >> THEN << >>
    ELSE LET m       == Head(items)
             methods == Get(m, "supported_generation_methods", {})
             name    == Get(m, "name", "")
         IN  IF ("generateContent" \in methods \/ "createContent" \in methods)
                /\ name # ""
             THEN << LastSegment(name) >> \o ListedNames(Tail(items))
             ELSE ListedNames(Tail(items))

list_available_gemini_models(listing) ==
    IF listing.raised THEN << >> ELSE ListedNames(listing.items)

\* the mutant of choose_gemini_model's search: the first available model that
\* contains any priority entry, whatever the entry's rank
FirstAvailableMatch(choice, avail) ==
    LET hits == { i \in 1 .. Len(avail) :
                    \E k \in 1 .. Len(priority) : Contains(avail[i], priority[k]) }
    IN  IF choice # AUTO THEN choice
        ELSE IF hits = {} THEN DEFAULT_MODEL
        ELSE avail[CHOOSE i \in hits : \A j \in hits : i <= j]

\* the `for pid in priority` loop of choose_gemini_model, from entry k on
RECURSIVE PickFrom(_, _)
PickFrom(avail, k) ==
    IF k > Len(priority) THEN DEFAULT_MODEL
    ELSE LET hits == { i \in 1 .. Len(avail) : Contains(avail[i], priority[k]) }
         IN  IF hits # {}
             THEN avail[CHOOSE i \in hits : \A j \in hits : i <= j]
             ELSE PickFrom(avail, k + 1)

\* choose_gemini_model, given what list_available_gemini_models returned
choose_gemini_model(choice, avail) ==
    IF choice # AUTO THEN choice ELSE PickFrom(avail, 1)

-----------------------------------------------------------------------------
(* The inputs of the page.                                                 *)

FirecrawlKeys == { "", "fc-key" }

GeminiKeys == { "", "gm-key" }

UserQueries == { "", "Looking for AI chatbots for e-commerce" }

NoResponse == [none |-> TRUE]

Init ==
    /\ pc = "idle"
    /\ firecrawl_api_key = ""
    /\ gemini_api_key = ""
    /\ gemini_model_id = AUTO
    /\ num_links = 1
    /\ user_query = ""
    /\ models = NoListing
    /\ available = << >>
    /\ resolved_model = ""
    /\ company_text = ""
    /\ query1 = ""
    /\ search_response = NoResponse
    /\ urls = << >>
    /\ idx = 0
    /\ responses = << >>
    /\ user_info_list = << >>
    /\ flattened_data = << >>
    /\ csv_download = << >>
    /\ json_download = << >>
    /\ disk_csv = << >>
    /\ screen = << >>
    /\ exc = "none"

Show(kind, text) == [kind |-> kind, text |-> text]

\* main, lines 173-177: "Generate Leads" is pressed with the page's inputs
Generate ==
    /\ pc = "idle"
    /\ \E fk \in FirecrawlKeys, gk \in GeminiKeys, q \in UserQueries,
          choice \in ModelChoices, n \in 1 .. MaxLinks :
         /\ firecrawl_api_key' = fk
         /\ gemini_api_key' = gk
         /\ user_query' = q
         /\ gemini_model_id' = choice
         /\ num_links' = n
         /\ IF fk = "" \/ gk = "" \/ q = ""
            THEN /\ screen' = Append(screen, Show("error",
                     "Please fill in the required API keys and describe what leads you're looking for."))
                 /\ pc' = "done"
            ELSE /\ screen' = screen
                 /\ pc' = "choose"
    /\ UNCHANGED << models, available, resolved_model, company_text, query1,
                    search_response, urls, idx, responses, user_info_list,
                    flattened_data, csv_download, json_download, disk_csv, exc >>

\* choose_gemini_model, lines 132-133: an explicit choice is returned as is
ChooseExplicit ==
    /\ pc = "choose"
    /\ gemini_model_id # AUTO
    /\ resolved_model' = choose_gemini_model(gemini_model_id, available)
    /\ pc' = "compress"
    /\ screen' = Append(screen, Show("caption",
                     "Using Gemini model: " \o choose_gemini_model(gemini_model_id, available)))
    /\ UNCHANGED << firecrawl_api_key, gemini_api_key, gemini_model_id, num_links,
                    user_query, models, available, company_text, query1,
                    search_response, urls, idx, responses, user_info_list,
                    flattened_data, csv_download, json_download, disk_csv, exc >>

\* choose_gemini_model, line 134: the automatic choice lists the models
ListModels ==
    /\ pc = "choose"
    /\ gemini_model_id = AUTO
    /\ \E listing \in Listings :
         /\ models' = listing
         /\ available' = list_available_gemini_models(listing)
    /\ pc' = "pick"
    /\ UNCHANGED << firecrawl_api_key, gemini_api_key, gemini_model_id, num_links,
                    user_query, resolved_model, company_text, query1,
                    search_response, urls, idx, responses, user_info_list,
                    flattened_data, csv_download, json_download, disk_csv,
                    screen, exc >>

\* choose_gemini_model, lines 135-146, and main's caption, line 178
PickModel ==
    /\ pc = "pick"
    /\ resolved_model' = choose_gemini_model(gemini_model_id, available)
    /\ pc' = "compress"
    /\ screen' = Append(screen, Show("caption",
                     "Using Gemini model: " \o choose_gemini_model(gemini_model_id, available)))
    /\ UNCHANGED << firecrawl_api_key, gemini_api_key, gemini_model_id, num_links,
                    user_query, models, available, company_text, query1,
                    search_response, urls, idx, responses, user_info_list,
                    flattened_data, csv_download, json_download, disk_csv, exc >>

-----------------------------------------------------------------------------
(* Query compression: main, lines 180-190.                                 *)

\* what the completion may say: a topic, or nothing
CompletionTexts == { "AI chatbots for e commerce", "" }

\* transform_agent.run raises, returns an object with .content, or returns
\* an object without it, of which str() is taken (line 189)
Completions ==
    { [raised |-> TRUE] }
    \cup { [raised |-> FALSE, content |-> t] : t \in CompletionTexts }
    \cup { [raised |-> FALSE, str |-> t] : t \in CompletionTexts }

CompanyText(c) == IF Has(c, "content") THEN c.content ELSE c.str

\* At the return of choose_gemini_model its frame (the listing, `available`)
\* is gone; an exception of the agent leaves main uncaught.
Compress ==
    /\ pc = "compress"
    /\ models' = NoListing
    /\ available' = << >>
    /\ \E c \in Completions :
         IF c.raised
         THEN /\ exc' = "transform_agent.run"
              /\ pc' = "aborted"
              /\ UNCHANGED << company_text, screen >>
         ELSE /\ company_text' = CompanyText(c)
              /\ screen' = Append(screen, Show("write", "Searching for: " \o CompanyText(c)))
              /\ pc' = "search"
              /\ exc' = exc
    /\ UNCHANGED << firecrawl_api_key, gemini_api_key, gemini_model_id, num_links,
                    user_query, resolved_model, query1, search_response, urls,
                    idx, responses, user_info_list, flattened_data,
                    csv_download, json_download, disk_csv >>

-----------------------------------------------------------------------------
(* Link discovery: search_for_urls, and main, lines 192-198 and 240-241.   *)

HTTP_OK == 200

\* statuses the search service may answer with
StatusCodes == { HTTP_OK, 404, 500 }

URLs == { "quora.com/q1", "quora.com/q2" }

SearchQuery(company_description) ==
    "quora websites where people are looking for " \o company_description \o " services"

\* entries of the response's data: with a url, or without one
ResultEntries == { [url |-> u] : u \in URLs } \cup { [title |-> "untitled"] }

\* bodies the service may send: the success flag and the data may be absent
SearchBodies(limit) ==
    { [success |-> TRUE, data |-> d] : d \in SeqsBetween(ResultEntries, 0, limit) }
    \cup { [success |-> FALSE, data |-> d] : d \in SeqsBetween(ResultEntries, 0, 1) }
    \cup { [data |-> d] : d \in SeqsBetween(ResultEntries, 0, 1) }
    \cup { [success |-> TRUE], [success |-> FALSE] }

\* responses of requests.post: a status, and a body that parses as JSON or not
SearchResponses(limit) ==
    { [status_code |-> st, json |-> b] :
        st \in StatusCodes, b \in SearchBodies(limit) }
    \cup { [status_code |-> st, text |-> "<html>"] : st \in StatusCodes }

\* the results search_for_urls reads, lines 40-43; << >> when it reads none
SearchResults(r) ==
    IF r.status_code = HTTP_OK /\ Has(r, "json") /\ Get(r.json, "success", FALSE)
    THEN Get(r.json, "data", << >>)
    ELSE << >>

\* the exception search_for_urls raises on response r, or "none"
SearchRaises(r) ==
    IF r.status_code # HTTP_OK THEN "none"
    ELSE IF ~Has(r, "json") THEN "response.json"
    ELSE IF \E i \in 1 .. Len(SearchResults(r)) : ~Has(SearchResults(r)[i], "url")
         THEN "KeyError: url"
    ELSE "none"

\* the mutant of search_for_urls: the status of the response is not looked at
search_for_urls_any_status(r) ==
    LET results == IF Has(r, "json") /\ Get(r.json, "success", FALSE)
                   THEN Get(r.json, "data", << >>) ELSE << >>
    IN  [i \in 1 .. Len(results) |-> Get(results[i], "url", "")]

\* the value search_for_urls returns on response r, when it raises nothing
search_for_urls(r) ==
    [i \in 1 .. Len(SearchResults(r)) |-> SearchResults(r)[i].url]

\* st.write(url) for each url, lines 197-198
RECURSIVE ShowUrls(_)
ShowUrls(us) ==
    IF us = << >> THEN << >>
    ELSE << Show("write", Head(us)) >> \o ShowUrls(Tail(us))

SearchFrame ==
    UNCHANGED << firecrawl_api_key, gemini_api_key, gemini_model_id, num_links,
                 user_query, models, available, resolved_model, company_text,
                 idx, responses, user_info_list, flattened_data,
                 csv_download, json_download, disk_csv >>

\* requests.post raises (no connection, a timeout): nothing catches it
SearchNoAnswer ==
    /\ pc = "search"
    /\ query1' = SearchQuery(company_text)
    /\ exc' = "requests.post"
    /\ pc' = "aborted"
    /\ UNCHANGED << search_response, urls, screen >>
    /\ SearchFrame

\* requests.post answers r
Search ==
    /\ pc = "search"
    /\ query1' = SearchQuery(company_text)
    /\ \E r \in SearchResponses(num_links) :
         /\ search_response' = r
         /\ IF SearchRaises(r) # "none"
            THEN /\ exc' = SearchRaises(r)
                 /\ pc' = "aborted"
                 /\ UNCHANGED << urls, screen >>
            ELSE /\ urls' = search_for_urls(r)
                 /\ exc' = exc
                 /\ IF search_for_urls(r) # << >>
                    THEN /\ screen' = screen \o << Show("subheader", "Quora Links Used:") >>
                                             \o ShowUrls(search_for_urls(r))
                         /\ pc' = "construct"
                    ELSE /\ screen' = Append(screen, Show("warning", "No relevant URLs found."))
                         /\ pc' = "done"
    /\ SearchFrame

-----------------------------------------------------------------------------
(* Extraction: extract_user_info_from_urls.                                *)

\* interactions the extraction service may report; a field may be absent
IFull ==
    [username |-> "alice", bio |-> "founder", post_type |-> "question",
     timestamp |-> "2y ago", upvotes |-> 12,
     links |-> << "https://a.io", "https://b.io" >>]

IBare == [username |-> "bob", post_type |-> "answer"]

Interactions == { IFull, IBare }

\* interaction lists of the responses explored in Spec
ReportedLists == { << >>, << IFull >>, << IBare, IFull >> }

\* answers of firecrawl_app.extract: it raises, or returns a dict of which
\* success, status, data and data.interactions may each be absent
ExtractAnswers ==
    { [raised |-> TRUE] }
    \cup { [raised |-> FALSE, success |-> TRUE, status |-> "completed",
            data |-> [interactions |-> l]] : l \in ReportedLists }
    \cup { [raised |-> FALSE, success |-> FALSE, status |-> "completed",
            data |-> [interactions |-> << IFull >>]],
           [raised |-> FALSE, success |-> TRUE, status |-> "processing",
            data |-> [interactions |-> << IFull >>]],
           [raised |-> FALSE, status |-> "completed",
            data |-> [interactions |-> << IFull >>]],
           [raised |-> FALSE, success |-> TRUE,
            data |-> [interactions |-> << IFull >>]],
           [raised |-> FALSE, success |-> TRUE, status |-> "completed"],
           [raised |-> FALSE, success |-> TRUE, status |-> "completed",
            data |-> [error |-> "no content"]] }

\* line 61
Accepted(response) ==
    Get(response, "success", FALSE) /\ Get(response, "status", "") = "completed"

\* line 62
InteractionsOf(response) ==
    Get(Get(response, "data", << >>), "interactions", << >>)

\* the mutant of ExtractBody: the status of the response is not looked at
ExtractBodyAnyStatus(list, url, response) ==
    IF Get(response, "success", FALSE) /\ InteractionsOf(response) # << >>
    THEN Append(list, [website_url |-> url, user_info |-> InteractionsOf(response)])
    ELSE list

\* lines 61-67: the loop body after the call returned `response`
ExtractBody(list, url, response) ==
    IF Accepted(response) /\ InteractionsOf(response) # << >>
    THEN Append(list, [website_url |-> url, user_info |-> InteractionsOf(response)])
    ELSE list

ExtractFrame ==
    UNCHANGED << firecrawl_api_key, gemini_api_key, gemini_model_id, num_links,
                 user_query, models, available, resolved_model, company_text,
                 query1, search_response, urls, flattened_data,
                 csv_download, json_download, disk_csv, screen >>

\* line 49, outside the try: FirecrawlApp(api_key=...) returns
Construct ==
    /\ pc = "construct"
    /\ pc' = "extract"
    /\ idx' = 0
    /\ responses' = << >>
    /\ user_info_list' = << >>
    /\ exc' = exc
    /\ ExtractFrame

\* line 49, outside the try: FirecrawlApp(api_key=...) raises
ConstructRaises ==
    /\ pc = "construct"
    /\ pc' = "aborted"
    /\ exc' = "FirecrawlApp"
    /\ UNCHANGED << idx, responses, user_info_list >>
    /\ ExtractFrame

\* lines 52-69: one turn of the loop.  The try encloses the whole loop, so an
\* exception of the call leaves the loop and the function returns (line 71).
ExtractStep ==
    /\ pc = "extract"
    /\ idx < Len(urls)
    /\ \E a \in ExtractAnswers :
         /\ responses' = Append(responses, a)
         /\ idx' = idx + 1
         /\ IF a.raised
            THEN /\ pc' = "flatten"
                 /\ user_info_list' = user_info_list
            ELSE /\ pc' = pc
                 /\ user_info_list' = ExtractBody(user_info_list, urls[idx + 1], a)
    /\ exc' = exc
    /\ ExtractFrame

\* the loop is exhausted: line 71
ExtractReturn ==
    /\ pc = "extract"
    /\ idx = Len(urls)
    /\ pc' = "flatten"
    /\ UNCHANGED << idx, responses, user_info_list, exc >>
    /\ ExtractFrame

-----------------------------------------------------------------------------
(* Flattening: format_user_info_to_flattened_json.                         *)

FieldNames ==
    << "Website URL", "Username", "Bio", "Post Type", "Timestamp", "Upvotes", "Links" >>

DefaultUpvotes == 0

\* lines 81-89: the record of one interaction
FlattenedInteraction(website_url, interaction) ==
    [f \in { FieldNames[k] : k \in 1 .. Len(FieldNames) } |->
        CASE f = "Website URL" -> website_url
          [] f = "Username"    -> Get(interaction, "username", "")
          [] f = "Bio"         -> Get(interaction, "bio", "")
          [] f = "Post Type"   -> Get(interaction, "post_type", "")
          [] f = "Timestamp"   -> Get(interaction, "timestamp", "")
          [] f = "Upvotes"     -> Get(interaction, "upvotes", DefaultUpvotes)
          [] f = "Links"       -> Join(", ", Get(interaction, "links", << >>))]

\* lines 80-90: the inner loop, over the interactions of one page
RECURSIVE FlattenPage(_, _)
FlattenPage(website_url, user_info) ==
    IF user_info = << >> THEN << >>
    ELSE << FlattenedInteraction(website_url, Head(user_info)) >>
         \o FlattenPage(website_url, Tail(user_info))

\* a mutant of format_user_info_to_flattened_json: the append is outside the
\* inner loop, so a page gives the record of its last interaction only
RECURSIVE FlattenLastOnly(_)
FlattenLastOnly(list) ==
    IF list = << >> THEN << >>
    ELSE LET info == Head(list).user_info
         IN  (IF info = << >> THEN << >>
              ELSE << FlattenedInteraction(Head(list).website_url, info[Len(info)]) >>)
             \o FlattenLastOnly(Tail(list))

\* a mutant of format_user_info_to_flattened_json: records are inserted at
\* the front of the output instead of appended
RECURSIVE FlattenPrepending(_)
FlattenPrepending(list) ==
    IF list = << >> THEN << >>
    ELSE LET page == FlattenPage(Head(list).website_url, Head(list).user_info)
         IN  FlattenPrepending(Tail(list))
             \o [i \in 1 .. Len(page) |-> page[Len(page) + 1 - i]]

\* lines 76-92: the outer loop, over the pages
RECURSIVE format_user_info_to_flattened_json(_)
format_user_info_to_flattened_json(list) ==
    IF list = << >> THEN << >>
    ELSE FlattenPage(Head(list).website_url, Head(list).user_info)
         \o format_user_info_to_flattened_json(Tail(list))

\* main, lines 203-206: flatten, then the branch on the result
Flatten ==
    /\ pc = "flatten"
    /\ flattened_data' = format_user_info_to_flattened_json(user_info_list)
    /\ pc' = IF format_user_info_to_flattened_json(user_info_list) # << >>
             THEN "export" ELSE "done"
    /\ UNCHANGED << firecrawl_api_key, gemini_api_key, gemini_model_id, num_links,
                    user_query, models, available, resolved_model, company_text,
                    query1, search_response, urls, idx, responses,
                    user_info_list, csv_download, json_download, disk_csv,
                    screen, exc >>

-----------------------------------------------------------------------------
(* Export: main, lines 206-239.                                            *)

\* csv.DictWriter writes str(value) for every field
CsvCell(f, rec) == IF f = "Upvotes" THEN ToString(rec[f]) ELSE rec[f]

CsvRow(rec) == [k \in 1 .. Len(FieldNames) |-> CsvCell(FieldNames[k], rec)]

\* writeheader(), then writerows(data): the header row and one row per record
CsvRows(data) == << FieldNames >> \o [i \in 1 .. Len(data) |-> CsvRow(data[i])]

\* json.dumps(data): an array of objects, each its key/value pairs in order
JsonObject(rec) ==
    [k \in 1 .. Len(FieldNames) |-> << FieldNames[k], rec[FieldNames[k]] >>]

JsonDumps(data) == [i \in 1 .. Len(data) |-> JsonObject(data[i])]

ExportFrame ==
    UNCHANGED << firecrawl_api_key, gemini_api_key, gemini_model_id, num_links,
                 user_query, models, available, resolved_model, company_text,
                 query1, search_response, urls, idx, responses,
                 user_info_list, flattened_data >>

\* lines 207-229: the preview and the two download buttons
Export ==
    /\ pc = "export"
    /\ csv_download' = CsvRows(flattened_data)
    /\ json_download' = JsonDumps(flattened_data)
    /\ screen' = screen \o
         << Show("subheader", "Preview Leads"),
            Show("dataframe", ToString(Len(flattened_data)) \o " rows"),
            Show("download_button", "Download CSV"),
            Show("download_button", "Download JSON") >>
    /\ pc' = "save"
    /\ UNCHANGED << disk_csv, exc >>
    /\ ExportFrame

\* what the file holds after the write: all rows, nothing when open() raised,
\* the header alone when a later write raised
WriteOutcomes == { "written", "open raises", "write raises" }

\* a mutant of SaveCsv: the write is not guarded, its exception leaves main
SaveCsvUnguarded(outcome) ==
    /\ disk_csv' = CASE outcome = "written"      -> CsvRows(flattened_data)
                     [] outcome = "open raises"  -> << >>
                     [] outcome = "write raises" -> << FieldNames >>
    /\ IF outcome = "written"
       THEN /\ screen' = Append(screen, Show("success", "Saved CSV to leads.csv"))
            /\ pc' = "done"
            /\ exc' = exc
       ELSE /\ screen' = screen
            /\ pc' = "aborted"
            /\ exc' = outcome

\* lines 232-239: the try around the write, the success or the error message
SaveCsv(outcome) ==
    /\ disk_csv' = CASE outcome = "written"      -> CsvRows(flattened_data)
                     [] outcome = "open raises"  -> << >>
                     [] outcome = "write raises" -> << FieldNames >>
    /\ screen' = Append(screen,
                   IF outcome = "written"
                   THEN Show("success", "Saved CSV to leads.csv")
                   ELSE Show("error", "Failed to save CSV: " \o outcome))
    /\ pc' = "done"
    /\ exc' = exc

Save ==
    /\ pc = "save"
    /\ \E outcome \in WriteOutcomes : SaveCsv(outcome)
    /\ UNCHANGED << csv_download, json_download >>
    /\ ExportFrame

\* lines 163-165: "Reset" clears the session and reruns the script
Reset ==
    /\ pc \in { "done", "aborted" }
    /\ pc' = "idle"
    /\ firecrawl_api_key' = ""
    /\ gemini_api_key' = ""
    /\ gemini_model_id' = AUTO
    /\ num_links' = 1
    /\ user_query' = ""
    /\ models' = NoListing
    /\ available' = << >>
    /\ resolved_model' = ""
    /\ company_text' = ""
    /\ query1' = ""
    /\ search_response' = NoResponse
    /\ urls' = << >>
    /\ idx' = 0
    /\ responses' = << >>
    /\ user_info_list' = << >>
    /\ flattened_data' = << >>
    /\ csv_download' = << >>
    /\ json_download' = << >>
    /\ disk_csv' = << >>
    /\ screen' = << >>
    /\ exc' = "none"

-----------------------------------------------------------------------------
(* The specifications.                                                     *)

Next ==
    \/ Generate
    \/ ChooseExplicit
    \/ ListModels
    \/ PickModel
    \/ Compress
    \/ SearchNoAnswer
    \/ Search
    \/ Construct
    \/ ConstructRaises
    \/ ExtractStep
    \/ ExtractReturn
    \/ Flatten
    \/ Export
    \/ Save
    \/ Reset

Spec == Init /\ [][Next]_vars

\* format_user_info_to_flattened_json on its own: any bounded list of pages,
\* a page without interactions included
Pages ==
    { [website_url |-> u, user_info |-> l] :
        u \in URLs, l \in SeqsBetween(Interactions, 0, MaxInter) }

InitFlatten ==
    /\ pc = "flatten"
    /\ user_info_list \in SeqsBetween(Pages, 0, MaxPages)
    /\ firecrawl_api_key = "fc-key"
    /\ gemini_api_key = "gm-key"
    /\ gemini_model_id = AUTO
    /\ num_links = 1
    /\ user_query = ""
    /\ models = NoListing
    /\ available = << >>
    /\ resolved_model = ""
    /\ company_text = ""
    /\ query1 = ""
    /\ search_response = NoResponse
    /\ urls = << >>
    /\ idx = 0
    /\ responses = << >>
    /\ flattened_data = << >>
    /\ csv_download = << >>
    /\ json_download = << >>
    /\ disk_csv = << >>
    /\ screen = << >>
    /\ exc = "none"

NextFlatten == Flatten

SpecFlatten == InitFlatten /\ [][NextFlatten]_vars

-----------------------------------------------------------------------------
(* The claims.                                                             *)

InteractionCounts(list) == [i \in 1 .. Len(list) |-> Len(list[i].user_info)]

\* C1 (SpecFlatten): once format_user_info_to_flattened_json has returned, the
\* number of flat records equals the sum, over the pages passed in, of the
\* number of interactions of each page.
C1_FlattenCount ==
    pc # "flatten" =>
        Len(flattened_data) = SumSeq(InteractionCounts(user_info_list))

\* two pages, of two and of one interaction, gave three records
C1_Witness ==
    /\ pc # "flatten"
    /\ Len(user_info_list) = 2
    /\ Len(user_info_list[1].user_info) = 2
    /\ Len(user_info_list[2].user_info) = 1
    /\ Len(flattened_data) = 3

\* C2 (Spec): when extract_user_info_from_urls returns, the call has been made
\* for every URL of the batch, whether or not an earlier call raised, and
\* every URL whose call returned success, status "completed" and a non-empty
\* interactions list has its entry in the result.  (Stated of runs with a
\* topic, so that a violation owes nothing to a blank one.)
C2_RaiseDoesNotStopBatch ==
    (pc = "flatten" /\ company_text # "") =>
        /\ Len(responses) = Len(urls)
        /\ \A i \in 1 .. Len(responses) :
             (/\ ~responses[i].raised
              /\ Accepted(responses[i])
              /\ InteractionsOf(responses[i]) # << >>)
             => \E j \in 1 .. Len(user_info_list) :
                  user_info_list[j] = [website_url |-> urls[i],
                                       user_info |-> InteractionsOf(responses[i])]

\* C3 (Spec): a compression that raises or returns an empty text ends the run
\* in an error: the search is never sent for a blank topic, and neither
\* extraction nor export is reached with one.
C3_CompressionFailureIsFatal ==
    /\ exc = "transform_agent.run" => (pc = "aborted" /\ query1 = "")
    /\ query1 # SearchQuery("")
    /\ pc \in { "construct", "extract", "flatten", "export", "save" }
         => company_text # ""

\* C4 (Spec): a run that ends without an exception and without leads has
\* displayed a message (an error, a warning or an info) before it ended.
\* (Stated of runs with a topic and in which no extraction call raised, so
\* that a violation owes nothing to those cases.)
C4_EmptyResultInformed ==
    (/\ pc = "done" /\ exc = "none" /\ flattened_data = << >>
     /\ (resolved_model # "" => company_text # "")
     /\ \A i \in 1 .. Len(responses) : ~responses[i].raised)
        => \E k \in 1 .. Len(screen) : screen[k].kind \in { "error", "warning", "info" }

\* C5 (Spec): no failure of the search request or of the extraction service,
\* the construction of its client included, leaves main as an exception.
\* (Stated of runs with a topic.)
C5_ServiceErrorsNeverSurface ==
    company_text # "" =>
        exc \notin { "requests.post", "response.json", "KeyError: url", "FirecrawlApp" }

SuccessFlag(r) == Has(r, "json") /\ Has(r.json, "success") /\ r.json.success

\* C6 (Spec): once requests.post has answered, a status other than 200, or a
\* parsed body whose success flag is false or missing, gives an empty URL list
\* and no exception; URLs come only from a 200 response with a true success
\* flag, and are then the url of each result entry in the service's order.
C6_SearchResult ==
    Has(search_response, "status_code") =>
        LET r == search_response
        IN  /\ (r.status_code # HTTP_OK \/ (Has(r, "json") /\ ~SuccessFlag(r)))
                 => (urls = << >> /\ exc = "none" /\ pc = "done")
            /\ urls # << >>
                 => /\ r.status_code = HTTP_OK
                    /\ SuccessFlag(r)
                    /\ Len(urls) = Len(r.json.data)
                    /\ \A i \in 1 .. Len(urls) : urls[i] = r.json.data[i].url

\* a 500 response whose body reports success and a result gave no URL
C6_Witness ==
    /\ Has(search_response, "status_code")
    /\ search_response.status_code = 500
    /\ SuccessFlag(search_response)
    /\ Has(search_response.json, "data")
    /\ Len(search_response.json.data) = 2
    /\ urls = << >>
    /\ pc = "done"

\* priority entries that are a substring of some available model name
MatchingEntries(avail) ==
    { k \in 1 .. Len(priority) : \E i \in 1 .. Len(avail) : Contains(avail[i], priority[k]) }

\* C7 (Spec): when choose_gemini_model has returned, an explicit choice is
\* returned unchanged; the automatic choice gives the first available model
\* containing the earliest priority entry that any available name contains,
\* and "gemini-1.5-pro" when no entry matches or the listing failed.
C7_ChooseModel ==
    pc = "compress" =>
        /\ gemini_model_id # AUTO => resolved_model = gemini_model_id
        /\ gemini_model_id = AUTO =>
             /\ models.raised => available = << >>
             /\ MatchingEntries(available) = {} => resolved_model = "gemini-1.5-pro"
             /\ MatchingEntries(available) # {} =>
                  LET k == CHOOSE k \in MatchingEntries(available) :
                             \A m \in MatchingEntries(available) : k <= m
                  IN  \E i \in 1 .. Len(available) :
                        /\ Contains(available[i], priority[k])
                        /\ \A j \in 1 .. (i - 1) : ~Contains(available[j], priority[k])
                        /\ resolved_model = available[i]
             /\ available = << "gemini-2.5-flash-001", "gemini-1.5-pro" >>
                  => resolved_model = "gemini-2.5-flash-001"

\* the earlier priority entry wins over the earlier position in the listing
C7_Witness ==
    /\ pc = "compress"
    /\ gemini_model_id = AUTO
    /\ available = << "gemini-1.5-pro", "gemini-2.5-flash-001" >>
    /\ resolved_model = "gemini-2.5-flash-001"

DownloadsOffered ==
    /\ \E k \in 1 .. Len(screen) : screen[k] = Show("download_button", "Download CSV")
    /\ \E k \in 1 .. Len(screen) : screen[k] = Show("download_button", "Download JSON")
    /\ Len(csv_download) = Len(flattened_data) + 1
    /\ csv_download[1] = FieldNames
    /\ \A i \in 1 .. Len(flattened_data) :
         \A k \in 1 .. Len(FieldNames) :
            csv_download[i + 1][k] =
                IF FieldNames[k] = "Upvotes"
                THEN ToString(flattened_data[i]["Upvotes"])
                ELSE flattened_data[i][FieldNames[k]]
    /\ Len(json_download) = Len(flattened_data)
    /\ \A i \in 1 .. Len(flattened_data) :
         \A k \in 1 .. Len(FieldNames) :
            json_download[i][k] = << FieldNames[k], flattened_data[i][FieldNames[k]] >>

\* C8 (Spec): a run with non-empty flattened data is never aborted; from the
\* export on, both downloads are offered with every record, and the run ends
\* either with the file written or with the displayed error of the write.
C8_WriteFailureKeepsDownloads ==
    flattened_data # << >> =>
        /\ pc \in { "export", "save", "done" }
        /\ exc = "none"
        /\ pc \in { "save", "done" } => DownloadsOffered
        /\ pc = "done" =>
             \/ /\ disk_csv = CsvRows(flattened_data)
                /\ screen[Len(screen)].kind = "success"
             \/ /\ disk_csv # CsvRows(flattened_data)
                /\ screen[Len(screen)].kind = "error"

\* the file could not be opened: the error is shown, the downloads stand
C8_Witness ==
    /\ pc = "done"
    /\ Len(flattened_data) = 3
    /\ disk_csv = << >>
    /\ screen[Len(screen)].kind = "error"
    /\ DownloadsOffered

\* interactions in the pages before page p, and up to it
Before(list, p) == SumSeq(InteractionCounts(SubSeq(list, 1, p - 1)))

\* the page that holds the k-th interaction
PageAt(list, k) ==
    CHOOSE p \in 1 .. Len(list) :
        Before(list, p) < k /\ k <= Before(list, p) + Len(list[p].user_info)

InteractionAt(list, k) ==
    list[PageAt(list, k)].user_info[k - Before(list, PageAt(list, k))]

\* C9 (SpecFlatten): once format_user_info_to_flattened_json has returned, its
\* k-th record carries the Website URL of the page holding the k-th
\* interaction (pages in input order, interactions in page order) and that
\* interaction's values, an absent text field as "", absent upvotes as 0,
\* absent links as "" and present links joined by ", ".
C9_FlattenOrder ==
    pc # "flatten" =>
        /\ Len(flattened_data) = SumSeq(InteractionCounts(user_info_list))
        /\ \A k \in 1 .. Len(flattened_data) :
             LET rec  == flattened_data[k]
                 page == user_info_list[PageAt(user_info_list, k)]
                 it   == InteractionAt(user_info_list, k)
             IN  /\ rec["Website URL"] = page.website_url
                 /\ rec["Username"]  = (IF Has(it, "username") THEN it.username ELSE "")
                 /\ rec["Bio"]       = (IF Has(it, "bio") THEN it.bio ELSE "")
                 /\ rec["Post Type"] = (IF Has(it, "post_type") THEN it.post_type ELSE "")
                 /\ rec["Timestamp"] = (IF Has(it, "timestamp") THEN it.timestamp ELSE "")
                 /\ rec["Upvotes"]   = (IF Has(it, "upvotes") THEN it.upvotes ELSE 0)
                 /\ ~Has(it, "links") => rec["Links"] = ""
                 /\ it = IFull => rec["Links"] = "https://a.io, https://b.io"

\* two pages of different URLs: the bare interaction got the defaults, the
\* full one its joined links, the second page's record its own URL
C9_Witness ==
    /\ pc # "flatten"
    /\ Len(user_info_list) = 2
    /\ user_info_list[1].website_url # user_info_list[2].website_url
    /\ user_info_list[1].user_info = << IBare, IFull >>
    /\ user_info_list[2].user_info = << IBare >>
    /\ flattened_data[1]["Upvotes"] = 0
    /\ flattened_data[1]["Links"] = ""
    /\ flattened_data[2]["Links"] = "https://a.io, https://b.io"
    /\ flattened_data[3]["Website URL"] = user_info_list[2].website_url

NoCallRaised == \A i \in 1 .. Len(responses) : ~responses[i].raised

\* the URLs handled so far whose response is accepted and reports interactions
AcceptedIndexes ==
    { i \in 1 .. Len(responses) :
        /\ Has(responses[i], "success") /\ responses[i].success
        /\ Has(responses[i], "status") /\ responses[i].status = "completed"
        /\ Has(responses[i], "data") /\ Has(responses[i].data, "interactions")
        /\ responses[i].data.interactions # << >> }

\* C10 (Spec): while no extraction call has raised, the accumulated result is
\* the subsequence, in input order, of the URLs handled whose response was
\* accepted with a non-empty interactions list, each with its interactions;
\* at the return every URL has been handled; no entry names a URL outside
\* the input.
C10_AcceptedSubsequence ==
    /\ \A j \in 1 .. Len(user_info_list) :
         \E i \in 1 .. Len(urls) : user_info_list[j].website_url = urls[i]
    /\ (pc \in { "extract", "flatten" } /\ NoCallRaised) =>
         /\ Len(responses) = idx
         /\ pc = "flatten" => idx = Len(urls)
         /\ Len(user_info_list) = Cardinality(AcceptedIndexes)
         /\ \A i \in AcceptedIndexes :
              user_info_list[Cardinality({ j \in AcceptedIndexes : j <= i })] =
                  [website_url |-> urls[i],
                   user_info |-> responses[i].data.interactions]

\* of two URLs the first was not completed and the second was accepted
C10_Witness ==
    /\ pc = "flatten"
    /\ NoCallRaised
    /\ Len(urls) = 2
    /\ urls[1] # urls[2]
    /\ Get(responses[1], "status", "") = "processing"
    /\ AcceptedIndexes = { 2 }
    /\ user_info_list = << [website_url |-> urls[2],
                            user_info |-> responses[2].data.interactions] >>

=============================================================================
